---- MODULE Spec2Model ----
(***************************************************************************)
(* JSANDB: the Model class of src/src/model.ts, a collection kept as one   *)
(* JSON record per line of a file.  Read operations stream the file line   *)
(* by line; rewrite operations stream it into a temporary file and rename  *)
(* the temporary file over the collection file.  Every `for await`         *)
(* iteration and every `await` is a point where another operation of the   *)
(* same process may run, so each operation is a small process: Start (the  *)
(* synchronous prologue), Open (the streams open their files), Step (one   *)
(* line of the loop, or the end of input), Rename (finish + fs rename).    *)
(***************************************************************************)
EXTENDS Integers, Sequences, FiniteSets, TLC

(***************************************************************************)
(* Bounds of the model.                                                    *)
(***************************************************************************)
\* longest collection file (in lines) of the one-operation-at-a-time runs
MaxLen == 3
\* longest collection file (in lines) of the runs with two operations at once
ConcLen == 2
\* largest page number and page size handed to paginate
MaxPage == 2
MaxPageSize == 2
\* last value of the millisecond clock Date.now() reads
MaxClock == 1
\* longest collection file (in lines) a database is opened with
DbLen == 2
\* most calls of Model methods (and of compact) an application makes
MaxCalls == 2

(***************************************************************************)
(* Records, filters and lines.                                             *)
(***************************************************************************)
Fields == {"name", "age"}
Vals == {1, 2}
\* a field the object does not have (JavaScript's undefined)
Absent == 0
\* a value that is a nested object: JSON.parse builds a new object for it at
\* every parse, so two of them read from two lines are equal and not the same
Composites == {3}
\* T / Partial<T>: a record, a query and an update are all objects over Fields
Records == [Fields -> Vals \cup {Absent}]
EmptyRecord == [f \in Fields |-> Absent]
\* the empty array []: what JSON.parse gives for the text createModel writes
EmptyArray == [length |-> 0]
\* record[f] of any parsed value: undefined for a key the value does not have
Get(record, f) == IF f \in DOMAIN record THEN record[f] ELSE Absent

\* mingoQuery.test(record): every field the query names equals the record's
Matches(record, query) ==
    \A f \in Fields : query[f] # Absent => Get(record, f) = query[f]

\* { ...update, ...record }: the record's own fields win
MergeUnder(record, update) ==
    [f \in Fields |-> IF Get(record, f) # Absent THEN Get(record, f) ELSE update[f]]

\* { ...record, ...update }
Merge(record, update) ==
    [f \in Fields |-> IF update[f] # Absent THEN update[f] ELSE Get(record, f)]

\* A line of text.  kind "json": a JSON text of the value rec, written either
\* as JSON.stringify writes it (fmt "compact") or with insignificant white
\* space (fmt "spaced"); kind "blank": empty or white space only; kind "bad":
\* text JSON.parse rejects.  eol: the line ends with "\n"; the last line of a
\* file may lack it, and readline delivers it all the same.
BlankLine == [kind |-> "blank", rec |-> EmptyRecord, fmt |-> "compact", eol |-> TRUE]
BadLine == [kind |-> "bad", rec |-> EmptyRecord, fmt |-> "compact", eol |-> TRUE]
Spaced(record) == [kind |-> "json", rec |-> record, fmt |-> "spaced", eol |-> TRUE]

\* JSON.stringify(record) + "\n"
Stringify(record) == [kind |-> "json", rec |-> record, fmt |-> "compact", eol |-> TRUE]
\* JSON.stringify(value) written with no "\n" after it
Unterminated(value) == [kind |-> "json", rec |-> value, fmt |-> "compact", eol |-> FALSE]
\* JSON.parse(line), for a line it accepts
Parse(line) == line.rec
\* !line.trim()
IsBlank(line) == line.kind = "blank"
\* JSON.parse(line) throws
Throws(line) == line.kind = "bad"

(***************************************************************************)
(* The file system: a directory of path -> inode number (0: no entry) and  *)
(* the inodes' contents.  An open stream holds an inode number, so a       *)
(* stream opened before a rename keeps reading the file it opened.         *)
(***************************************************************************)
Slots == {1, 2}
ReadKinds == {"find", "findOne", "count", "aggregate", "paginate", "distinct", "project"}
RewriteKinds == {"update", "delete", "findOneAndUpdate", "findOneAndDelete"}

\* this.filePath: path.join(dbPath, modelName + ".json")
FilePath == [dir |-> "dbPath", base |-> "model", stamp |-> 0]
\* the prefix each rewrite method gives its temporary file
TempPrefix(kind) ==
    CASE kind = "update" -> "model-update-"
      [] kind = "delete" -> "model-delete-"
      [] kind = "findOneAndUpdate" -> "model-findoneupdate-"
      [] kind = "findOneAndDelete" -> "model-findonedelete-"
\* join(tmpdir(), `model-<op>-${Date.now()}.jsonl`)
TempPath(kind, t) == [dir |-> "tmpdir", base |-> TempPrefix(kind), stamp |-> t]
NoPath == [dir |-> "", base |-> "", stamp |-> 0]
Paths == {FilePath} \cup {TempPath(k, t) : k \in RewriteKinds, t \in 0..MaxClock}
Inodes == 1..(1 + 2 * Cardinality(Slots))

VARIABLES
    inode,  \* inode number -> the file's lines
    dir,    \* path -> inode number, 0 when the path does not exist
    ops,    \* slot -> the operation running in it
    now,    \* Date.now()
    db      \* the database directory, the Database instance and the create-db command

vars == <<inode, dir, ops, now, db>>

\* the collection file's lines, as a reader opening it now would find them
File == inode[dir[FilePath]]

IdleOp ==
    [kind |-> "none", pc |-> "idle",
     query |-> EmptyRecord, update |-> EmptyRecord, data |-> EmptyRecord,
     page |-> 0, pageSize |-> 0, pipeline |-> <<>>, field |-> "",
     includeFields |-> {}, excludeFields |-> {},
     tempPath |-> NoPath, rfd |-> 0, wfd |-> 0, pos |-> 0, wpos |-> 0, end |-> -1,
     results |-> <<>>, values |-> <<>>, count |-> 0, skipped |-> 0, taken |-> 0,
     found |-> FALSE, ret |-> <<>>,
     pre |-> <<>>]

Running(o) == o.pc \in {"append", "open", "scan", "rename"}

\* an inode is kept while a path names it or a running operation holds it open
Referenced(n, d, os) ==
    \/ \E p \in Paths : d[p] = n
    \/ \E i \in Slots : Running(os[i]) /\ (os[i].rfd = n \/ os[i].wfd = n)

Reclaim(ino, d, os) ==
    [n \in Inodes |-> IF Referenced(n, d, os) THEN ino[n] ELSE <<>>]

FreeInode(d, os) ==
    CHOOSE n \in Inodes :
        /\ ~Referenced(n, d, os)
        /\ \A m \in Inodes : ~Referenced(m, d, os) => n <= m

Files(maxLen, lines) == UNION {[1..k -> lines] : k \in 0..maxLen}

\* a file as the program and its user leave it: lines written by JSON.stringify,
\* hand-edited lines with white space, blank lines, and a damaged line
FileRecords ==
    {[name |-> 1, age |-> 1], [name |-> 2, age |-> 1], [name |-> 1, age |-> Absent]}
InitLines ==
    {Stringify(r) : r \in FileRecords} \cup {Spaced([name |-> 1, age |-> 1]), BlankLine, BadLine}

\* The database around the collection.  jsandb, dbPath: the directories
\* path.join(__dirname, "JSANDB") and this.dbPath exist; access: fs.access of
\* the `database` argument of connect succeeds; users: what user.json holds for
\* the credentials given ("none": no file or no JSON array, "other": an array
\* without them, "valid": an array with them); app: the application's position
\* (connect, then createModel); models: this.models holds the collection's
\* Model; cli, dbExists: the create-db command's position and its variable;
\* created: the collection file was written by createModel; calls: the calls
\* of Model methods that have returned to the application, oldest first;
\* exdev: os.tmpdir() is on another volume than dbPath, where rename fails.
OpenDb ==
    [jsandb |-> TRUE, dbPath |-> TRUE, access |-> TRUE, users |-> "valid", exdev |-> FALSE,
     app |-> "connected", models |-> TRUE, cli |-> "none", dbExists |-> TRUE,
     created |-> FALSE, calls |-> <<>>]

\* a collection file `file` behind a Model the application already holds
InitWith(file) ==
    /\ inode = [n \in Inodes |-> IF n = 1 THEN file ELSE <<>>]
    /\ dir = [p \in Paths |-> IF p = FilePath THEN 1 ELSE 0]
    /\ ops = [i \in Slots |-> IdleOp]
    /\ now = 0
    /\ db = OpenDb

\* the smaller alphabet of the runs with two operations at once
ConcLines ==
    {Stringify([name |-> 1, age |-> 1]), Stringify([name |-> 2, age |-> 1]), BadLine}
ConcInserts == {[name |-> 2, age |-> Absent]}

Init == \E file \in Files(ConcLen, ConcLines) : InitWith(file)
SeqInit == \E file \in Files(MaxLen, InitLines) : InitWith(file)

(***************************************************************************)
(* The loop bodies.  Each takes the operation's state o and the record     *)
(* parsed from the current line and gives the state after the iteration    *)
(* (pc "done": the method returned from inside the loop) and the lines the *)
(* iteration hands to writeStream.write.                                   *)
(***************************************************************************)
Iter(o, out) == [op |-> o, out |-> out]

\* results.unshift(record)
findUnshift(o, record) ==
    IF Matches(record, o.query)
    THEN Iter([o EXCEPT !.results = <<record>> \o @], <<>>)
    ELSE Iter(o, <<>>)

find(o, record) ==
    IF Matches(record, o.query)
    THEN Iter([o EXCEPT !.results = Append(@, record)], <<>>)
    ELSE Iter(o, <<>>)

\* keeps the match and reads on
findOneReadsOn(o, record) ==
    IF Matches(record, o.query)
    THEN Iter([o EXCEPT !.ret = <<record>>], <<>>)
    ELSE Iter(o, <<>>)

findOne(o, record) ==
    IF Matches(record, o.query)
    THEN Iter([o EXCEPT !.ret = <<record>>, !.pc = "done"], <<>>)
    ELSE Iter(o, <<>>)

count(o, record) ==
    IF Matches(record, o.query)
    THEN Iter([o EXCEPT !.count = @ + 1], <<>>)
    ELSE Iter(o, <<>>)

\* records.push(JSON.parse(line)): the pipeline runs after the loop
aggregate(o, record) ==
    Iter([o EXCEPT !.results = Append(@, record)], <<>>)

\* mingo.aggregate(records, pipeline), for pipelines of $match stages
RECURSIVE Aggregate(_, _)
Aggregate(records, pipeline) ==
    IF pipeline = <<>> THEN records
    ELSE Aggregate(SelectSeq(records, LAMBDA r : Matches(r, Head(pipeline))),
                   Tail(pipeline))

\* skips page * pageSize matches
paginateSkipsPage(o, record) ==
    LET break(x) == IF x.taken >= x.pageSize THEN [x EXCEPT !.pc = "done"] ELSE x
    IN  IF Matches(record, o.query)
        THEN LET o1 == [o EXCEPT !.count = @ + 1]
             IN  IF o1.skipped < o1.page * o1.pageSize
                 THEN Iter([o1 EXCEPT !.skipped = @ + 1], <<>>)
                 ELSE IF o1.taken < o1.pageSize
                      THEN Iter(break([o1 EXCEPT !.results = Append(@, record),
                                                 !.taken = @ + 1]), <<>>)
                      ELSE Iter(break(o1), <<>>)
        ELSE Iter(break(o), <<>>)

\* total is kept in o.count
paginate(o, record) ==
    LET break(x) == IF x.taken >= x.pageSize THEN [x EXCEPT !.pc = "done"] ELSE x
    IN  IF Matches(record, o.query)
        THEN LET o1 == [o EXCEPT !.count = @ + 1]
             IN  IF o1.skipped < (o1.page - 1) * o1.pageSize
                 THEN Iter([o1 EXCEPT !.skipped = @ + 1], <<>>)
                 ELSE IF o1.taken < o1.pageSize
                      THEN Iter(break([o1 EXCEPT !.results = Append(@, record),
                                                 !.taken = @ + 1]), <<>>)
                      ELSE Iter(break(o1), <<>>)
        ELSE Iter(break(o), <<>>)

\* without the else branch: a record that does not match is not written
updateDropsOthers(o, record) ==
    IF Matches(record, o.query)
    THEN Iter(o, <<Stringify(Merge(record, o.update))>>)
    ELSE Iter(o, <<>>)

\* merges the update into every record
updateEvery(o, record) ==
    Iter(o, <<Stringify(Merge(record, o.update))>>)

update(o, record) ==
    IF Matches(record, o.query)
    THEN Iter(o, <<Stringify(Merge(record, o.update))>>)
    ELSE Iter(o, <<Stringify(record)>>)

\* counts the match and writes it all the same
deleteKeeps(o, record) ==
    IF Matches(record, o.query)
    THEN Iter([o EXCEPT !.count = @ + 1], <<Stringify(record)>>)
    ELSE Iter(o, <<Stringify(record)>>)

\* deletedCount is kept in o.count
delete(o, record) ==
    IF Matches(record, o.query)
    THEN Iter([o EXCEPT !.count = @ + 1], <<>>)
    ELSE Iter(o, <<Stringify(record)>>)

\* without the `!updated` test
findOneAndUpdateEvery(o, record) ==
    IF Matches(record, o.query)
    THEN LET merged == Merge(record, o.update)
         IN  Iter([o EXCEPT !.ret = <<merged>>, !.found = TRUE], <<Stringify(merged)>>)
    ELSE Iter(o, <<Stringify(record)>>)

\* updated is o.found, updatedRecord is o.ret (<<>>: null)
findOneAndUpdate(o, record) ==
    IF ~o.found /\ Matches(record, o.query)
    THEN LET merged == Merge(record, o.update)
         IN  Iter([o EXCEPT !.ret = <<merged>>, !.found = TRUE], <<Stringify(merged)>>)
    ELSE Iter(o, <<Stringify(record)>>)

\* without the `!deleted` test
findOneAndDeleteEvery(o, record) ==
    IF Matches(record, o.query)
    THEN Iter([o EXCEPT !.ret = <<record>>, !.found = TRUE], <<>>)
    ELSE Iter(o, <<Stringify(record)>>)

\* deleted is o.found, deletedRecord is o.ret (<<>>: null)
findOneAndDelete(o, record) ==
    IF ~o.found /\ Matches(record, o.query)
    THEN Iter([o EXCEPT !.ret = <<record>>, !.found = TRUE], <<>>)
    ELSE Iter(o, <<Stringify(record)>>)

\* the Set's test of membership, for a value already in the Set and a value
\* of the record parsed now: objects are the same only when they are one object
SameValueZero(a, b) == a = b /\ a \notin Composites

\* values.add(record[field]): a Set keeps one of each value, in order of arrival
distinct(o, record) ==
    IF Matches(record, o.query)
    THEN IF \E k \in 1..Len(o.values) : SameValueZero(o.values[k], Get(record, o.field))
         THEN Iter(o, <<>>)
         ELSE Iter([o EXCEPT !.values = Append(@, Get(record, o.field))], <<>>)
    ELSE Iter(o, <<>>)

\* tests the exclude list before the include list, and keeps what it should drop
projectKeepsExcluded(o, record) ==
    IF Matches(record, o.query)
    THEN LET projected ==
                 IF o.excludeFields # {}
                 THEN [f \in Fields |-> IF f \in o.excludeFields THEN Get(record, f) ELSE Absent]
                 ELSE IF o.includeFields # {}
                 THEN [f \in Fields |-> IF f \in o.includeFields THEN Get(record, f) ELSE Absent]
                 ELSE record
         IN  Iter([o EXCEPT !.results = Append(@, projected)], <<>>)
    ELSE Iter(o, <<>>)

\* includeFields / excludeFields are the projection's keys set to 1 / to 0
project(o, record) ==
    IF Matches(record, o.query)
    THEN LET projected ==
                 IF o.includeFields # {}
                 THEN [f \in Fields |-> IF f \in o.includeFields THEN Get(record, f) ELSE Absent]
                 ELSE IF o.excludeFields # {}
                 THEN [f \in Fields |-> IF f \in o.excludeFields THEN Absent ELSE Get(record, f)]
                 ELSE record
         IN  Iter([o EXCEPT !.results = Append(@, projected)], <<>>)
    ELSE Iter(o, <<>>)

Body(o, record) ==
    CASE o.kind = "find" -> find(o, record)
      [] o.kind = "findOne" -> findOne(o, record)
      [] o.kind = "count" -> count(o, record)
      [] o.kind = "aggregate" -> aggregate(o, record)
      [] o.kind = "paginate" -> paginate(o, record)
      [] o.kind = "distinct" -> distinct(o, record)
      [] o.kind = "project" -> project(o, record)
      [] o.kind = "update" -> update(o, record)
      [] o.kind = "delete" -> delete(o, record)
      [] o.kind = "findOneAndUpdate" -> findOneAndUpdate(o, record)
      [] o.kind = "findOneAndDelete" -> findOneAndDelete(o, record)

(***************************************************************************)
(* The operations.                                                         *)
(***************************************************************************)
\* a stream that ends releases its descriptors
Close(o) == [o EXCEPT !.rfd = 0, !.wfd = 0]

\* writes through to the collection file itself
WriteInPlace(o) == dir[FilePath]

\* the inode writeStream.write reaches: the one createWriteStream(tempPath) opened
WriteInode(o) == o.wfd

\* the file after a write of `out` through a descriptor whose offset is wpos lines
WriteAt(content, wpos, out) ==
    IF out = <<>> THEN content
    ELSE IF wpos < Len(content)
         THEN [content EXCEPT ![wpos + 1] = out[1]]
         ELSE content \o [k \in 1..(wpos - Len(content)) |-> BadLine] \o out

\* Date.now() advances.  Only Start reads the clock, and only the difference
\* between the readings of two calls matters, so the clock is let advance
\* between the first call and the last.
Tick ==
    /\ now < MaxClock
    /\ \E i \in Slots : ops[i].pc = "idle"
    /\ \E i \in Slots : ops[i].pc # "idle"
    /\ now' = now + 1
    /\ UNCHANGED <<inode, dir, ops, db>>

\* the file after `line` is appended to it: text appended after a last line
\* that has no "\n" continues that line, and only white space followed by a
\* JSON text is a JSON text
AppendText(content, line) ==
    IF content = <<>> \/ content[Len(content)].eol THEN Append(content, line)
    ELSE [content EXCEPT ![Len(content)] =
             IF IsBlank(@) THEN (IF line.kind = "json" THEN [line EXCEPT !.fmt = "spaced"] ELSE line)
             ELSE IF IsBlank(line) /\ ~Throws(@) THEN [@ EXCEPT !.eol = line.eol]
             ELSE BadLine]

\* insert(data), after its prologue: fsPromises.appendFile(this.filePath,
\* JSON.stringify(data) + "\n") completes and the method returns this
insert(i) ==
    /\ ops[i].pc = "append"
    /\ inode' = [inode EXCEPT ![dir[FilePath]] = AppendText(@, Stringify(ops[i].data))]
    /\ ops' = [ops EXCEPT ![i] = [@ EXCEPT !.pc = "done"]]
    /\ UNCHANGED <<dir, now, db>>

\* the synchronous prologue of a method, up to its first await; a slot holds
\* one call of a method
Start(i, kind, a) ==
    /\ ops[i].pc = "idle"
    /\ ops' = [ops EXCEPT ![i] =
                 [IdleOp EXCEPT !.kind = kind,
                                !.pc = IF kind = "insert" THEN "append" ELSE "open",
                                !.query = a.query, !.update = a.update, !.data = a.data,
                                !.page = a.page, !.pageSize = a.pageSize,
                                !.pipeline = a.pipeline, !.field = a.field,
                                !.includeFields = a.includeFields,
                                !.excludeFields = a.excludeFields,
                                !.tempPath = IF kind \in RewriteKinds
                                             THEN TempPath(kind, now) ELSE NoPath,
                                !.pre = File]]
    /\ UNCHANGED <<inode, dir, now, db>>

\* createReadStream(this.filePath) and createWriteStream(tempPath) open their
\* files: the write stream creates the temporary file or truncates the one
\* already at that path
Open(i) ==
    /\ ops[i].pc = "open"
    /\ LET o == ops[i]
           tp == o.tempPath
           w == IF o.kind \in ReadKinds THEN 0
                ELSE IF dir[tp] # 0 THEN dir[tp] ELSE FreeInode(dir, ops)
       IN  /\ ops' = [ops EXCEPT ![i] =
                        [o EXCEPT !.pc = "scan", !.rfd = dir[FilePath], !.wfd = w]]
           /\ dir' = IF w = 0 THEN dir ELSE [dir EXCEPT ![tp] = w]
           /\ inode' = IF w = 0 THEN inode ELSE [inode EXCEPT ![w] = <<>>]
    /\ UNCHANGED <<now, db>>

\* without the `if (!line.trim()) continue`: JSON.parse rejects a blank line
IterationParsesBlank(o, line) ==
    LET o1 == [o EXCEPT !.pos = @ + 1]
    IN  IF IsBlank(line) \/ Throws(line) THEN Iter([o1 EXCEPT !.pc = "failed"], <<>>)
        ELSE Body(o1, Parse(line))

\* catches the SyntaxError and goes on to the next line
IterationSkipsBad(o, line) ==
    LET o1 == [o EXCEPT !.pos = @ + 1]
    IN  IF IsBlank(line) \/ Throws(line) THEN Iter(o1, <<>>)
        ELSE Body(o1, Parse(line))

\* one iteration of `for await (const line of rl)` on `line`: a blank line is
\* skipped, a line JSON.parse rejects throws out of the method
Iteration(o, line) ==
    LET o1 == [o EXCEPT !.pos = @ + 1]
    IN  IF IsBlank(line) THEN Iter(o1, <<>>)
        ELSE IF Throws(line) THEN Iter([o1 EXCEPT !.pc = "failed"], <<>>)
        ELSE Body(o1, Parse(line))

\* the loop ends: a read returns, a rewrite calls writeStream.end()
EndOfInput(o) ==
    IF o.kind \in RewriteKinds THEN [o EXCEPT !.pc = "rename"]
    ELSE IF o.kind = "aggregate"
    THEN [o EXCEPT !.pc = "done", !.results = Aggregate(@, o.pipeline)]
    ELSE [o EXCEPT !.pc = "done"]

\* The read stream runs ahead of the loop: it reads the file in chunks and
\* ends when a read returns nothing, while readline still holds lines the
\* loop has not taken.  end is the number of lines the stream had read when
\* it ended (-1: it has not ended); text appended to the file afterwards is
\* not read.  When the stream ends matters only to an append still to come.
ReadAhead(i) ==
    /\ ops[i].pc = "scan"
    /\ ops[i].end = -1
    /\ \E j \in Slots : j # i /\ ops[j].pc = "append"
    /\ ops' = [ops EXCEPT ![i] = [@ EXCEPT !.end = Len(inode[ops[i].rfd])]]
    /\ UNCHANGED <<inode, dir, now, db>>

\* the lines of its file the loop of operation o gets
Visible(o) ==
    IF o.end = -1 \/ o.end >= Len(inode[o.rfd]) THEN inode[o.rfd]
    ELSE SubSeq(inode[o.rfd], 1, o.end)

\* one iteration of the loop of operation i, or the end of its input
Step(i) ==
    /\ ops[i].pc = "scan"
    /\ LET o == ops[i]
           content == Visible(o)
       IN  IF o.pos >= Len(content)
           THEN /\ ops' = [ops EXCEPT ![i] =
                             IF EndOfInput(o).pc = "done"
                             THEN Close(EndOfInput(o)) ELSE EndOfInput(o)]
                /\ inode' = Reclaim(inode, dir, ops')
           ELSE LET r == Iteration(o, content[o.pos + 1])
                    w == WriteInode(o)
                    o2 == IF r.out = <<>> THEN r.op ELSE [r.op EXCEPT !.wpos = @ + 1]
                IN  /\ ops' = [ops EXCEPT ![i] =
                                 IF o2.pc \in {"done", "failed"} THEN Close(o2) ELSE o2]
                    /\ inode' = Reclaim(
                           IF r.out = <<>> THEN inode
                           ELSE [inode EXCEPT ![w] = WriteAt(@, o.wpos, r.out)],
                           dir, ops')
    /\ UNCHANGED <<dir, now, db>>

\* copies the temporary file's lines into the file already at the path
CopyOver(from, to) ==
    [dir |-> [dir EXCEPT ![from] = 0],
     inode |-> [inode EXCEPT ![dir[to]] = inode[dir[from]]]]

\* fs rename(from, to): the directory entry `to` now names the inode of `from`
RenameOver(from, to) ==
    [dir |-> [dir EXCEPT ![to] = dir[from], ![from] = 0],
     inode |-> inode]

\* writeStream's "finish", then fsPromises.rename(tempPath, this.filePath)
Rename(i) ==
    /\ ops[i].pc = "rename"
    /\ LET o == ops[i]
           tp == o.tempPath
       IN  IF dir[tp] = 0 \/ db.exdev
           THEN \* ENOENT or EXDEV: the promise rejects
                /\ ops' = [ops EXCEPT ![i] = Close([o EXCEPT !.pc = "failed"])]
                /\ dir' = dir
                /\ inode' = Reclaim(inode, dir, ops')
           ELSE /\ dir' = RenameOver(tp, FilePath).dir
                /\ ops' = [ops EXCEPT ![i] = Close([o EXCEPT !.pc = "done"])]
                /\ inode' = Reclaim(RenameOver(tp, FilePath).inode, dir', ops')
    /\ UNCHANGED <<now, db>>

(***************************************************************************)
(* Inputs and specifications.                                              *)
(***************************************************************************)
\* queries and updates naming at most one field
OneField == {r \in Records : Cardinality({f \in Fields : r[f] # Absent}) <= 1}
Queries == OneField \cup {[name |-> 1, age |-> 1]}
Updates == OneField
ConcQueries == {EmptyRecord, [name |-> 1, age |-> Absent]}
ConcUpdates == {[name |-> Absent, age |-> 2]}

\* the arguments of a call; a method reads only its own
NoArgs ==
    [query |-> EmptyRecord, update |-> EmptyRecord, data |-> EmptyRecord,
     page |-> 0, pageSize |-> 0, pipeline |-> <<>>, field |-> "",
     includeFields |-> {}, excludeFields |-> {}]

\* projections: the fields set to 1 and the fields set to 0
Projections == {p \in [inc : SUBSET Fields, exc : SUBSET Fields] : p.inc \cap p.exc = {}}
ConcProjections == {[inc |-> {"name"}, exc |-> {}]}

StartAny(i, queries, updates, inserts, pages, sizes, projections) ==
    \/ \E d \in inserts :
          Start(i, "insert", [NoArgs EXCEPT !.data = d])
    \/ \E k \in {"find", "findOne", "count"}, q \in queries :
          Start(i, k, [NoArgs EXCEPT !.query = q])
    \/ \E q \in queries :
          \/ Start(i, "aggregate", NoArgs)
          \/ Start(i, "aggregate", [NoArgs EXCEPT !.pipeline = <<q>>])
    \/ \E q \in queries, pg \in pages, sz \in sizes :
          Start(i, "paginate", [NoArgs EXCEPT !.query = q, !.page = pg, !.pageSize = sz])
    \/ \E q \in queries, f \in Fields :
          Start(i, "distinct", [NoArgs EXCEPT !.query = q, !.field = f])
    \/ \E q \in queries, p \in projections :
          Start(i, "project", [NoArgs EXCEPT !.query = q, !.includeFields = p.inc,
                                             !.excludeFields = p.exc])
    \/ \E k \in {"delete", "findOneAndDelete"}, q \in queries :
          Start(i, k, [NoArgs EXCEPT !.query = q])
    \/ \E k \in {"update", "findOneAndUpdate"}, q \in queries, u \in updates :
          Start(i, k, [NoArgs EXCEPT !.query = q, !.update = u])

\* the slots are interchangeable: a call takes the lowest slot still idle
ConcStart(i) ==
    /\ \A j \in Slots : j < i => ops[j].pc # "idle"
    /\ StartAny(i, ConcQueries, ConcUpdates, ConcInserts, {1}, {1}, ConcProjections)

\* two operations of one process, interleaved at their awaits
Next ==
    \/ Tick
    \/ \E i \in Slots : ConcStart(i)
    \/ \E i \in Slots : insert(i)
    \/ \E i \in Slots : Open(i)
    \/ \E i \in Slots : ReadAhead(i)
    \/ \E i \in Slots : Step(i)
    \/ \E i \in Slots : Rename(i)

Spec == Init /\ [][Next]_vars

\* one operation at a time: the caller awaits each before the next
SeqNext ==
    \/ StartAny(1, Queries, Updates, FileRecords, 1..MaxPage, 1..MaxPageSize, Projections)
    \/ insert(1)
    \/ Open(1)
    \/ Step(1)
    \/ Rename(1)

SeqSpec == SeqInit /\ [][SeqNext]_vars

(***************************************************************************)
(* The database: connect, Database.createModel, Database.compact, and the  *)
(* create-db command of the CLI.  The application connects, creates its    *)
(* Model and then calls the Model's methods one after the other, each call *)
(* awaited before the next.                                                *)
(***************************************************************************)
\* connect({database, username, password}): fs.access(database), readUsers,
\* validateUser, then new Database(database), whose constructor makes
\* this.dbPath when it is missing (mkdirSync throws when JSANDB is missing too)
Connect(d) ==
    IF ~d.access THEN [ok |-> FALSE, db |-> d]
    ELSE IF d.users # "valid" THEN [ok |-> FALSE, db |-> d]
    ELSE IF d.dbPath THEN [ok |-> TRUE, db |-> d]
    ELSE IF d.jsandb THEN [ok |-> TRUE, db |-> [d EXCEPT !.dbPath = TRUE]]
    ELSE [ok |-> FALSE, db |-> d]

\* if (!fs.existsSync(filePath)) fs.writeFileSync(filePath, JSON.stringify([], null, 2))
WritePlaceholder ==
    IF dir[FilePath] # 0 THEN [dir |-> dir, inode |-> inode, wrote |-> FALSE]
    ELSE LET n == FreeInode(dir, ops)
         IN  [dir |-> [dir EXCEPT ![FilePath] = n],
              inode |-> [inode EXCEPT ![n] = <<Unterminated(EmptyArray)>>],
              wrote |-> TRUE]

\* the application's call of connect; the application is started when no
\* create-db command is under way
connect ==
    /\ db.app = "start"
    /\ db.cli \in {"none", "exit0", "exit1"}
    /\ LET r == Connect(db)
       IN  db' = [r.db EXCEPT !.app = IF r.ok THEN "connected" ELSE "failed"]
    /\ UNCHANGED <<inode, dir, ops, now>>

\* Database.createModel(modelName, schema)
createModel ==
    /\ db.app = "connected"
    /\ ~db.models
    /\ dir' = WritePlaceholder.dir
    /\ inode' = WritePlaceholder.inode
    /\ db' = [db EXCEPT !.models = TRUE, !.created = WritePlaceholder.wrote]
    /\ UNCHANGED <<ops, now>>

\* Database.compact(): model.getAll() is an async method called without await,
\* so data is a Promise, and JSON.stringify of a Promise is "{}"
compact ==
    /\ db.app = "connected"
    /\ db.models
    /\ Len(db.calls) < MaxCalls
    /\ \A i \in Slots : ops[i].pc = "idle"
    /\ inode' = [inode EXCEPT ![dir[FilePath]] = <<Unterminated(EmptyRecord)>>]
    /\ db' = [db EXCEPT !.calls =
                 Append(@, [IdleOp EXCEPT !.kind = "compact", !.pc = "done", !.pre = File])]
    /\ UNCHANGED <<dir, ops, now>>

\* the user record { username, password } the command inserts
CliUser == [name |-> 1, age |-> 1]

\* one step of the create-db action: the first connect, the test of dbExists,
\* the second connect, createModel("users", ...), userModel.insert; an error
\* thrown after the first connect reaches the outer catch, which exits 1
createDb ==
    /\ db.cli \in {"connect1", "check", "connect2", "createModel", "insert"}
    /\ CASE db.cli = "connect1" ->
              /\ db' = [Connect(db).db EXCEPT !.dbExists = Connect(db).ok, !.cli = "check"]
              /\ UNCHANGED <<inode, dir>>
         [] db.cli = "check" ->
              /\ db' = [db EXCEPT !.cli = IF db.dbExists THEN "exit1" ELSE "connect2"]
              /\ UNCHANGED <<inode, dir>>
         [] db.cli = "connect2" ->
              /\ db' = [Connect(db).db EXCEPT
                           !.cli = IF Connect(db).ok THEN "createModel" ELSE "exit1"]
              /\ UNCHANGED <<inode, dir>>
         [] db.cli = "createModel" ->
              /\ dir' = WritePlaceholder.dir
              /\ inode' = WritePlaceholder.inode
              /\ db' = [db EXCEPT !.cli = "insert", !.created = WritePlaceholder.wrote]
         [] db.cli = "insert" ->
              /\ inode' = [inode EXCEPT ![dir[FilePath]] = AppendText(@, Stringify(CliUser))]
              /\ db' = [db EXCEPT !.cli = "exit0"]
              /\ UNCHANGED dir
    /\ UNCHANGED <<ops, now>>

\* the call in slot i returns (or throws) to the application
Return(i) ==
    /\ ops[i].pc \in {"done", "failed"}
    /\ db' = [db EXCEPT !.calls = Append(@, ops[i])]
    /\ ops' = [ops EXCEPT ![i] = IdleOp]
    /\ UNCHANGED <<inode, dir, now>>

\* a record whose name is a nested object, and a record with the same name
NestedRecords == {[name |-> 3, age |-> 1], [name |-> 3, age |-> 2]}
DbRecords == {[name |-> 1, age |-> 1], [name |-> 2, age |-> 1]}
DbLines == {Stringify(r) : r \in NestedRecords} \cup {Spaced([name |-> 1, age |-> 1])}
DbQueries == {EmptyRecord}
DbUpdates == {[name |-> Absent, age |-> 2]}
DbProjections == {[inc |-> {"name"}, exc |-> {}]}

\* the application calls a method of the Model it holds
DbStart(i) ==
    /\ db.models
    /\ Len(db.calls) < MaxCalls
    /\ StartAny(i, DbQueries, DbUpdates, DbRecords, {1}, {1}, DbProjections)

\* the machine the database is opened on: the directories, user.json and the
\* collection file may or may not be there; a collection file lives in dbPath
DbInit ==
    \E jsandb, dbPath, access, present \in BOOLEAN, users \in {"none", "other", "valid"} :
        \E file \in Files(DbLen, DbLines), cli \in {"none", "connect1"}, exdev \in BOOLEAN :
            /\ dbPath => jsandb
            /\ present => dbPath
            /\ ~present => file = <<>>
            /\ inode = [n \in Inodes |-> IF n = 1 /\ present THEN file ELSE <<>>]
            /\ dir = [p \in Paths |-> IF p = FilePath /\ present THEN 1 ELSE 0]
            /\ ops = [i \in Slots |-> IdleOp]
            /\ now = 0
            /\ db = [OpenDb EXCEPT !.jsandb = jsandb, !.dbPath = dbPath, !.access = access,
                                   !.users = users, !.app = "start", !.models = FALSE,
                                   !.cli = cli, !.exdev = exdev]

DbNext ==
    \/ connect
    \/ createModel
    \/ compact
    \/ createDb
    \/ DbStart(1)
    \/ insert(1)
    \/ Open(1)
    \/ Step(1)
    \/ Rename(1)
    \/ Return(1)

DbSpec == DbInit /\ [][DbNext]_vars

(***************************************************************************)
(* What the properties speak of.                                           *)
(***************************************************************************)
\* the records a file holds, in file order: its lines that are JSON texts
JsonLines(content) == SelectSeq(content, LAMBDA l : l.kind = "json")
RecordsOf(content) == [k \in 1..Len(JsonLines(content)) |-> JsonLines(content)[k].rec]
Matching(content, query) == SelectSeq(RecordsOf(content), LAMBDA r : Matches(r, query))
NonMatching(content, query) == SelectSeq(RecordsOf(content), LAMBDA r : ~Matches(r, query))
\* the indices of the matching records among the records of a file
MatchIndices(content, query) ==
    {k \in 1..Len(RecordsOf(content)) : Matches(RecordsOf(content)[k], query)}
Least(S) == CHOOSE k \in S : \A m \in S : k <= m
SmallerOf(a, b) == IF a <= b THEN a ELSE b

\* a method run from its first line to its return over `content`, with nothing
\* else running
RECURSIVE Scan(_, _)
Scan(o, content) ==
    IF o.pc # "scan" THEN o
    ELSE IF o.pos >= Len(content) THEN EndOfInput(o)
    ELSE Scan(Iteration(o, content[o.pos + 1]).op, content)

\* what a read method returns
Returned(o) ==
    [results |-> o.results, values |-> o.values, count |-> o.count, ret |-> o.ret]
Alone(o, content) ==
    Returned(Scan([IdleOp EXCEPT !.kind = o.kind, !.pc = "scan", !.query = o.query,
                                 !.page = o.page, !.pageSize = o.pageSize,
                                 !.pipeline = o.pipeline, !.field = o.field,
                                 !.includeFields = o.includeFields,
                                 !.excludeFields = o.excludeFields], content))

Done(i, kind) == ops[i].kind = kind /\ ops[i].pc = "done"

(***************************************************************************)
(* C1.  A rewrite (update, delete, findOneAndUpdate, findOneAndDelete)     *)
(* that has not completed its rename, and in particular one that failed on *)
(* a line JSON.parse rejects, has left the collection file exactly as it   *)
(* was when the call began, and its temporary file still sits at its own   *)
(* path: it was not renamed over the collection file.                      *)
(***************************************************************************)
C1_FailedRewriteLeavesFile ==
    \A i \in Slots :
        (ops[i].kind \in RewriteKinds /\ ops[i].pc \in {"open", "scan", "rename", "failed"})
        => /\ File = ops[i].pre
           /\ ops[i].pc # "open" =>
                 dir[ops[i].tempPath] # 0 /\ dir[ops[i].tempPath] # dir[FilePath]

\* a rewrite that wrote records to its temporary file and then failed
C1_Witness ==
    \E i \in Slots :
        /\ ops[i].kind \in RewriteKinds /\ ops[i].pc = "failed"
        /\ ops[i].pos >= 2
        /\ Len(inode[dir[ops[i].tempPath]]) >= 1
        /\ RecordsOf(inode[dir[ops[i].tempPath]]) # RecordsOf(SubSeq(File, 1, ops[i].pos - 1))

(***************************************************************************)
(* C2.  One rewrite and one read interleaved on the same file: what the    *)
(* read returns is what it returns, run alone, on the file as it was       *)
(* before the rewrite or on the file as the rewrite's rename left it.      *)
(***************************************************************************)
C2_ReadSeesOldOrNew ==
    \A i, j \in Slots :
        (/\ ops[i].kind \in ReadKinds /\ ops[i].pc = "done"
         /\ ops[j].kind \in RewriteKinds)
        => \/ Returned(ops[i]) = Alone(ops[i], ops[j].pre)
           \/ ops[j].pc = "done" /\ Returned(ops[i]) = Alone(ops[i], File)

\* the rename has replaced the file under a reader that is part way through it
C2_Witness ==
    \E i, j \in Slots :
        /\ ops[i].kind \in ReadKinds /\ ops[i].pc = "scan" /\ ops[i].pos >= 1
        /\ ops[i].pos < Len(inode[ops[i].rfd])
        /\ ops[j].kind \in RewriteKinds /\ ops[j].pc = "done"
        /\ ops[i].rfd # dir[FilePath]
        /\ Alone(ops[i], File) # Alone(ops[i], ops[j].pre)

(***************************************************************************)
(* C3.  delete(filter) returns the number of records of the file that      *)
(* match the filter, and leaves a file holding exactly the records that do *)
(* not match, each once, in their original order.                          *)
(***************************************************************************)
C3_DeleteCountAndRest ==
    \A i \in Slots :
        Done(i, "delete")
        => /\ ops[i].count = Len(Matching(ops[i].pre, ops[i].query))
           /\ RecordsOf(File) = NonMatching(ops[i].pre, ops[i].query)
           /\ Len(File) = Len(RecordsOf(File))

\* a delete that dropped a record and kept two
C3_Witness ==
    \E i \in Slots :
        /\ Done(i, "delete")
        /\ ops[i].count >= 1
        /\ Len(File) >= 2

(***************************************************************************)
(* C4, as claimed.  After update(filter, patch) every line that held a     *)
(* record not matching the filter is the very same text as before.         *)
(***************************************************************************)
C4_NonMatchingLinesIdentical ==
    \A i \in Slots :
        Done(i, "update")
        => LET old == JsonLines(ops[i].pre)
           IN  \A k \in 1..Len(old) :
                   ~Matches(old[k].rec, ops[i].query)
                   => k <= Len(File) /\ File[k] = old[k]

(***************************************************************************)
(* C4, amended.  After update(filter, patch) every line that held a record *)
(* not matching the filter holds JSON.stringify of that same record: the   *)
(* very same text when the line was already in that form, the record       *)
(* re-encoded without its white space otherwise.                           *)
(***************************************************************************)
C4_NonMatchingLinesReencoded ==
    \A i \in Slots :
        Done(i, "update")
        => LET old == JsonLines(ops[i].pre)
           IN  \A k \in 1..Len(old) :
                   ~Matches(old[k].rec, ops[i].query)
                   => /\ k <= Len(File)
                      /\ File[k] = Stringify(old[k].rec)
                      /\ old[k].fmt = "compact" => File[k] = old[k]

\* an update that changed a matching record and passed over a non-matching
\* line written with white space
C4_Witness ==
    \E i \in Slots :
        /\ Done(i, "update")
        /\ LET old == JsonLines(ops[i].pre)
           IN  /\ \E k \in 1..Len(old) :
                     ~Matches(old[k].rec, ops[i].query) /\ old[k].fmt = "spaced"
               /\ \E k \in 1..Len(old) :
                     Matches(old[k].rec, ops[i].query) /\ File[k].rec # old[k].rec

(***************************************************************************)
(* C5.  After update(filter, patch) the file holds as many records as      *)
(* before, in the same order; a record that matched has every field of the *)
(* patch at the patch's value and every other field as it was; a record    *)
(* that did not match is the record it was.                                *)
(***************************************************************************)
C5_UpdateMerges ==
    \A i \in Slots :
        Done(i, "update")
        => LET old == RecordsOf(ops[i].pre)
               new == RecordsOf(File)
               patch == ops[i].update
           IN  /\ Len(new) = Len(old)
               /\ Len(File) = Len(new)
               /\ \A k \in 1..Len(old) :
                     IF Matches(old[k], ops[i].query)
                     THEN \A f \in Fields :
                             new[k][f] = IF patch[f] # Absent THEN patch[f] ELSE old[k][f]
                     ELSE new[k] = old[k]

\* a matching record with two fields, one overwritten with a new value and
\* the other, which the patch does not name, preserved
C5_Witness ==
    \E i \in Slots :
        /\ Done(i, "update")
        /\ \E k \in 1..Len(RecordsOf(ops[i].pre)), f, g \in Fields :
              LET old == RecordsOf(ops[i].pre)[k]
              IN  /\ Matches(old, ops[i].query)
                  /\ f # g
                  /\ old[f] # Absent /\ ops[i].update[f] # Absent
                  /\ ops[i].update[f] # old[f]
                  /\ old[g] # Absent /\ ops[i].update[g] = Absent

(***************************************************************************)
(* C6.  findOneAndUpdate(filter, patch) changes only the first record in   *)
(* file order that matches, returns that record as merged with the patch,  *)
(* and with no matching record returns null and changes no record.         *)
(***************************************************************************)
C6_FindOneAndUpdateFirst ==
    \A i \in Slots :
        Done(i, "findOneAndUpdate")
        => LET old == RecordsOf(ops[i].pre)
               M == MatchIndices(ops[i].pre, ops[i].query)
           IN  IF M = {}
               THEN ops[i].ret = <<>> /\ RecordsOf(File) = old
               ELSE LET merged == Merge(old[Least(M)], ops[i].update)
                    IN  /\ ops[i].ret = <<merged>>
                        /\ RecordsOf(File) = [old EXCEPT ![Least(M)] = merged]

\* two records match, the patch would change both, only the first is changed
C6_Witness ==
    \E i \in Slots :
        /\ Done(i, "findOneAndUpdate")
        /\ LET old == RecordsOf(ops[i].pre)
               M == MatchIndices(ops[i].pre, ops[i].query)
           IN  /\ Cardinality(M) >= 2
               /\ \A k \in M : Merge(old[k], ops[i].update) # old[k]

(***************************************************************************)
(* C7.  findOneAndDelete(filter) removes the first record in file order    *)
(* that matches and no other, keeps the rest in order, returns the removed *)
(* record, and with no matching record returns null and keeps them all.    *)
(***************************************************************************)
C7_FindOneAndDeleteFirst ==
    \A i \in Slots :
        Done(i, "findOneAndDelete")
        => LET old == RecordsOf(ops[i].pre)
               M == MatchIndices(ops[i].pre, ops[i].query)
           IN  IF M = {}
               THEN ops[i].ret = <<>> /\ RecordsOf(File) = old
               ELSE /\ ops[i].ret = <<old[Least(M)]>>
                    /\ RecordsOf(File) =
                          [k \in 1..(Len(old) - 1) |->
                              IF k < Least(M) THEN old[k] ELSE old[k + 1]]

\* two records match and a record that does not match comes before them
C7_Witness ==
    \E i \in Slots :
        /\ Done(i, "findOneAndDelete")
        /\ LET M == MatchIndices(ops[i].pre, ops[i].query)
           IN  Cardinality(M) >= 2 /\ 1 \notin M

(***************************************************************************)
(* C8.  find(filter) returns exactly the records of the file that match,   *)
(* in file order; with the empty filter, every record in file order.       *)
(***************************************************************************)
C8_FindAllMatchesInOrder ==
    \A i \in Slots :
        Done(i, "find")
        => /\ ops[i].results = Matching(ops[i].pre, ops[i].query)
           /\ ops[i].query = EmptyRecord => ops[i].results = RecordsOf(ops[i].pre)

\* two different records returned, one record of the file left out
C8_Witness ==
    \E i \in Slots :
        /\ Done(i, "find")
        /\ Len(ops[i].results) = 2
        /\ ops[i].results[1] # ops[i].results[2]
        /\ Len(RecordsOf(ops[i].pre)) = 3

(***************************************************************************)
(* C9.  findOne(filter) returns the first record in file order that        *)
(* matches (the first element of what find returns), has read no line past *)
(* it, and returns null when no record matches.                            *)
(***************************************************************************)
C9_FindOneFirstAndStops ==
    \A i \in Slots :
        Done(i, "findOne")
        => LET pre == ops[i].pre
               L == {k \in 1..Len(pre) :
                        pre[k].kind = "json" /\ Matches(pre[k].rec, ops[i].query)}
           IN  IF L = {}
               THEN ops[i].ret = <<>> /\ ops[i].pos = Len(pre)
               ELSE /\ ops[i].ret = <<pre[Least(L)].rec>>
                    /\ ops[i].ret = <<Matching(pre, ops[i].query)[1]>>
                    /\ ops[i].pos = Least(L)

\* the first match is not the first line, and a different match follows it
C9_Witness ==
    \E i \in Slots :
        /\ Done(i, "findOne")
        /\ ops[i].ret # <<>>
        /\ ops[i].pos = 2
        /\ Len(ops[i].pre) = 3
        /\ ops[i].pre[3].kind = "json"
        /\ Matches(ops[i].pre[3].rec, ops[i].query)
        /\ ops[i].pre[3].rec # ops[i].ret[1]

(***************************************************************************)
(* C10.  paginate(filter, page, pageSize), page >= 1 and pageSize >= 1,    *)
(* returns as data the matching records numbered (page-1)*pageSize+1 to    *)
(* page*pageSize in file order, fewer when the matches run out.            *)
(***************************************************************************)
C10_PaginateWindow ==
    \A i \in Slots :
        Done(i, "paginate")
        => LET M == Matching(ops[i].pre, ops[i].query)
               first == (ops[i].page - 1) * ops[i].pageSize + 1
               last == SmallerOf(ops[i].page * ops[i].pageSize, Len(M))
           IN  ops[i].results = IF first <= last THEN SubSeq(M, first, last) ELSE <<>>

\* a full second page, with a match left beyond it
C10_Witness ==
    \E i \in Slots :
        /\ Done(i, "paginate")
        /\ ops[i].page = 2
        /\ Len(ops[i].results) = ops[i].pageSize
        /\ Len(Matching(ops[i].pre, ops[i].query)) > ops[i].page * ops[i].pageSize

(***************************************************************************)
(* C11.  The total paginate(filter, page, pageSize) returns is the number  *)
(* of records of the whole file that match the filter, for every page and  *)
(* pageSize.                                                               *)
(***************************************************************************)
C11_PaginateTotal ==
    \A i \in Slots :
        Done(i, "paginate")
        => ops[i].count = Len(Matching(ops[i].pre, ops[i].query))

(***************************************************************************)
(* C12.  distinct(field, filter) returns each value found at the field in  *)
(* the matching records exactly once, values being the same when they are  *)
(* equal by value, structurally for nested objects and arrays.             *)
(***************************************************************************)
C12_DistinctByValue ==
    \A i \in Slots :
        Done(i, "distinct")
        => LET M == Matching(ops[i].pre, ops[i].query)
               v == ops[i].values
           IN  /\ {v[k] : k \in 1..Len(v)} = {Get(M[k], ops[i].field) : k \in 1..Len(M)}
               /\ \A k, m \in 1..Len(v) : k # m => v[k] # v[m]

(***************************************************************************)
(* C13.  project(filter, projection) returns one output per matching       *)
(* record, in file order: with fields listed for inclusion (and none for   *)
(* exclusion) the output has those fields of the record and no other, with *)
(* fields listed for exclusion (and none for inclusion) it has every field *)
(* of the record but those, with neither it is the record; the file is as  *)
(* it was.                                                                 *)
(***************************************************************************)
C13_ProjectFields ==
    \A i \in Slots :
        Done(i, "project")
        => LET M == Matching(ops[i].pre, ops[i].query)
               R == ops[i].results
               inc == ops[i].includeFields
               exc == ops[i].excludeFields
           IN  /\ Len(R) = Len(M)
               /\ \A k \in 1..Len(M) :
                    /\ (inc # {} /\ exc = {}) =>
                          \A f \in Fields : R[k][f] = IF f \in inc THEN M[k][f] ELSE Absent
                    /\ (inc = {} /\ exc # {}) =>
                          \A f \in Fields : R[k][f] = IF f \in exc THEN Absent ELSE M[k][f]
                    /\ (inc = {} /\ exc = {}) => R[k] = M[k]
               /\ File = ops[i].pre

\* an exclusion that dropped a field two matching records have, with a record
\* of the file that does not match
C13_Witness ==
    \E i \in Slots :
        /\ Done(i, "project")
        /\ ops[i].includeFields = {} /\ ops[i].excludeFields = {"age"}
        /\ Len(ops[i].results) = 2
        /\ Len(RecordsOf(ops[i].pre)) = 3
        /\ \A k \in 1..2 : Matching(ops[i].pre, ops[i].query)[k]["age"] # Absent
        /\ \A k \in 1..2 : ops[i].results[k]["age"] = Absent /\ ops[i].results[k]["name"] # Absent

(***************************************************************************)
(* C14.  insert(record) appends exactly one line, holding the encoded      *)
(* record, at the end of the file, and leaves every line the file already  *)
(* had unchanged and in place; it checks neither uniqueness nor schema     *)
(* (the record may already be in the file).                                *)
(***************************************************************************)
C14_InsertAppendsLine ==
    \A i \in Slots :
        Done(i, "insert")
        => File = ops[i].pre \o <<Stringify(ops[i].data)>>

(***************************************************************************)
(* C15.  On a collection whose file createModel has just created, after    *)
(* the application has inserted n records (and called nothing else), no    *)
(* read fails, count({}) returns n, find({}) returns the n records in the  *)
(* order of their insertion, and a delete returns the number of inserted   *)
(* records that match its filter (1 for delete({name:'Bob'}) after the     *)
(* inserts of Alice and Bob).                                              *)
(***************************************************************************)
C15_FreshCollection ==
    LET c == db.calls
        inserted == [k \in 1..Len(c) |-> c[k].data]
    IN  (db.created /\ \A k \in 1..Len(c) : c[k].kind = "insert" /\ c[k].pc = "done")
        => \A i \in Slots :
             /\ ops[i].kind \in ReadKinds \cup {"delete"} => ops[i].pc # "failed"
             /\ (Done(i, "count") /\ ops[i].query = EmptyRecord) => ops[i].count = Len(c)
             /\ (Done(i, "find") /\ ops[i].query = EmptyRecord) => ops[i].results = inserted
             /\ Done(i, "delete") =>
                   ops[i].count = Len(SelectSeq(inserted, LAMBDA r : Matches(r, ops[i].query)))

(***************************************************************************)
(* C16.  A read (find, count, distinct, project, paginate, aggregate and   *)
(* findOne) whose scan reads a line JSON.parse rejects fails there, with   *)
(* the error thrown to its caller: it reads no further, and a read that    *)
(* returned a result has read no such line, so no result is built from the *)
(* records before a bad line.                                              *)
(***************************************************************************)
C16_BadLineFailsRead ==
    \A i \in Slots :
        ops[i].kind \in ReadKinds
        => LET o == ops[i]
           IN  /\ (o.pos >= 1 /\ Throws(o.pre[o.pos])) => o.pc = "failed"
               /\ o.pc = "done" => \A k \in 1..o.pos : ~Throws(o.pre[k])
               /\ (o.pc = "done" /\ o.kind \notin {"findOne", "paginate"})
                     => \A k \in 1..Len(o.pre) : ~Throws(o.pre[k])
               /\ o.pc = "failed" => (o.pos >= 1 /\ Throws(o.pre[o.pos]))

\* a find that failed on the third line with two matches already collected
C16_Witness ==
    \E i \in Slots :
        /\ ops[i].kind = "find" /\ ops[i].pc = "failed"
        /\ ops[i].pos = 3
        /\ Len(ops[i].results) = 2

(***************************************************************************)
(* C17.  Database.compact() keeps the data of the collection: right after  *)
(* it the collection file holds the same records, in the same order, as    *)
(* before the call.                                                        *)
(***************************************************************************)
C17_CompactKeepsRecords ==
    LET c == db.calls
    IN  (/\ c # <<>>
         /\ c[Len(c)].kind = "compact"
         /\ \A i \in Slots : ops[i].pc = "idle")
        => RecordsOf(File) = RecordsOf(c[Len(c)].pre)

(***************************************************************************)
(* C18.  The create-db command, run for a database that does not exist     *)
(* yet, ends with exit status 0, the database directory made and a user    *)
(* record holding the given username and password in the collection.       *)
(***************************************************************************)
C18_CreateDbCreates ==
    (~db.access /\ db.cli \in {"exit0", "exit1"})
    => /\ db.cli = "exit0"
       /\ db.dbPath
       /\ dir[FilePath] # 0
       /\ \E k \in 1..Len(File) : File[k].kind = "json" /\ File[k].rec = CliUser

(***************************************************************************)
(* C19.  Two rewrite calls whose executions overlap use different          *)
(* temporary file paths, also when they are calls of the same method made  *)
(* within the same millisecond.                                            *)
(***************************************************************************)
C19_TempPathsDiffer ==
    \A i, j \in Slots :
        (/\ i # j
         /\ ops[i].kind \in RewriteKinds /\ Running(ops[i])
         /\ ops[j].kind \in RewriteKinds /\ Running(ops[j]))
        => ops[i].tempPath # ops[j].tempPath

(***************************************************************************)
(* C20.  Every rewrite (update, delete, findOneAndUpdate,                  *)
(* findOneAndDelete) makes its temporary file in the directory of the      *)
(* collection file it will replace, so its rename moves no file from one   *)
(* directory or volume to another and does not fail for that.              *)
(***************************************************************************)
C20_TempFileBesideCollection ==
    \A i \in Slots :
        ops[i].kind \in RewriteKinds
        => /\ ops[i].tempPath.dir = FilePath.dir
           /\ (ops[i].pc = "failed" /\ ops[i].pos >= 1) => Throws(ops[i].pre[ops[i].pos])

(***************************************************************************)
(* C21.  Two rewrites run concurrently on the same collection file (whose  *)
(* lines all decode) both finish without error, and the file is then the   *)
(* complete output of one of them, computed from the file as it was before *)
(* both or from the other's output: never a mixture of the two outputs and *)
(* never part of an output.                                                *)
(***************************************************************************)
\* the lines a rewrite writes to its temporary file over `content`, run alone
RECURSIVE Writes(_, _)
Writes(o, content) ==
    IF o.pc # "scan" \/ o.pos >= Len(content) THEN <<>>
    ELSE Iteration(o, content[o.pos + 1]).out
            \o Writes(Iteration(o, content[o.pos + 1]).op, content)
Output(o, content) ==
    Writes([IdleOp EXCEPT !.kind = o.kind, !.pc = "scan", !.query = o.query,
                          !.update = o.update], content)

C21_LastRenameWins ==
    \A i, j \in Slots :
        (/\ i < j
         /\ ops[i].kind \in RewriteKinds /\ ops[i].pc \in {"done", "failed"}
         /\ ops[j].kind \in RewriteKinds /\ ops[j].pc \in {"done", "failed"}
         /\ \A k \in 1..Len(ops[i].pre) : ~Throws(ops[i].pre[k]))
        => /\ ops[i].pc = "done" /\ ops[j].pc = "done"
           /\ LET before == ops[i].pre
              IN  File \in {Output(ops[i], before), Output(ops[j], before),
                            Output(ops[i], Output(ops[j], before)),
                            Output(ops[j], Output(ops[i], before))}

(***************************************************************************)
(* C22.  Empty and white-space-only lines are skipped, never decoded and   *)
(* never taken for records: a read returns (or fails) as it does on the    *)
(* file with those lines removed, and a rewrite fails only where it fails  *)
(* on that file, and otherwise returns the same count or record and leaves *)
(* the same file as it does on that file.                                  *)
(***************************************************************************)
NoBlanks(content) == SelectSeq(content, LAMBDA l : ~IsBlank(l))

C22_BlankLinesSkipped ==
    \A i \in Slots :
        (ops[i].kind \in ReadKinds \cup RewriteKinds /\ ops[i].pc \in {"done", "failed"})
        => LET o == ops[i]
               clean == NoBlanks(o.pre)
               alone == Scan([IdleOp EXCEPT !.kind = o.kind, !.pc = "scan",
                                            !.query = o.query, !.update = o.update,
                                            !.page = o.page, !.pageSize = o.pageSize,
                                            !.pipeline = o.pipeline, !.field = o.field,
                                            !.includeFields = o.includeFields,
                                            !.excludeFields = o.excludeFields], clean)
           IN  /\ o.pc = "failed" <=> alone.pc = "failed"
               /\ o.pc = "done" =>
                     /\ Returned(o) = Returned(alone)
                     /\ o.kind \in RewriteKinds => File = Output(o, clean)
                     /\ o.kind \in ReadKinds => File = o.pre

\* an update and a count over a file with a blank line between two records
C22_Witness ==
    \E i \in Slots :
        /\ ops[i].kind \in {"update", "count"} /\ ops[i].pc = "done"
        /\ Len(ops[i].pre) = 3
        /\ IsBlank(ops[i].pre[2])
        /\ ~IsBlank(ops[i].pre[1]) /\ ~IsBlank(ops[i].pre[3])
        /\ ops[i].kind = "update" => Len(File) = 2
        /\ ops[i].kind = "count" => ops[i].count = 2

(***************************************************************************)
(* C23.  A record inserted while a rewrite (update, delete,                *)
(* findOneAndUpdate, findOneAndDelete) is under way on the same file, and  *)
(* which the rewrite's filter does not match, is in the collection file    *)
(* once both calls have completed: whether its insert completed before the *)
(* rewrite's rename or after it, no interleaving loses it.                 *)
(***************************************************************************)
Holds(content, record) ==
    \E k \in 1..Len(content) : content[k].kind = "json" /\ content[k].rec = record

C23_NoInsertLost ==
    \A i, j \in Slots :
        (/\ ops[i].kind \in RewriteKinds /\ ops[i].pc = "done"
         /\ ops[j].kind = "insert" /\ ops[j].pc = "done"
         /\ ~Matches(ops[j].data, ops[i].query))
        => Holds(File, ops[j].data)

(***************************************************************************)
(* C23, amended.  A record whose insert completed before the rewrite was   *)
(* called (the rewrite began on the file that ends with the record's       *)
(* line), and which its filter does not match, is in the collection file   *)
(* after the rename.                                                       *)
(***************************************************************************)
C23_InsertBeforeRewriteKept ==
    \A i, j \in Slots :
        (/\ ops[i].kind \in RewriteKinds /\ ops[i].pc = "done"
         /\ ops[j].kind = "insert" /\ ops[j].pc = "done"
         /\ ~Matches(ops[j].data, ops[i].query)
         /\ ops[i].pre = ops[j].pre \o <<Stringify(ops[j].data)>>)
        => Holds(File, ops[j].data)

\* an update that changed a record of the file and kept the record inserted
\* before it
C23_Witness ==
    \E i, j \in Slots :
        /\ ops[i].kind = "update" /\ ops[i].pc = "done"
        /\ ops[j].kind = "insert" /\ ops[j].pc = "done"
        /\ ~Matches(ops[j].data, ops[i].query)
        /\ ops[i].pre = ops[j].pre \o <<Stringify(ops[j].data)>>
        /\ File # ops[i].pre
        /\ Holds(File, ops[j].data)

====
